---- MODULE Spec2Model ----
(***************************************************************************)
(* danmu-tts: the TTS orchestration layer (src/src/tts_manager.py), its    *)
(* cache store (src/src/cache_manager.py) and the cache-key derivation     *)
(* (src/src/utils.py); and the HTTP layer of the danmu_tts package         *)
(* (src/danmu_tts/api/tts.py over src/danmu_tts/manager.py).               *)
(*                                                                         *)
(* Python strings are modelled as tuples of one-character strings, so that *)
(* concatenation (\o), strip() and comparison are computed as Python       *)
(* computes them.  None is the one-element tuple <<"None">>, which no      *)
(* string of single characters equals.                                     *)
(***************************************************************************)
EXTENDS Integers, Sequences, FiniteSets, TLC

VARIABLES
    backends,       \* TTSManager.backends: the names registered by initialize()
    available,      \* the registered backends whose is_available() probe answers true now
    settings,       \* settings.tts: [primary_backend, fallback_backends]
    stats,          \* TTSManager.stats: [total_requests, cache_hits, backend_usage]
    req,            \* one record per in-flight or finished generate_speech/stream_speech call
    now,            \* time.time()
    memory_cache,   \* CacheManager.memory_cache, in dict (insertion) order
    cache_stats,    \* CacheManager.cache_stats: [hits, misses, size_mb]
    cache_type,     \* CacheManager.cache_type: "memory" or "file"
    cache_dir,      \* the *.cache files of the file tier: [key, data, mtime]
    ret,            \* what the last direct CacheManager.get / set call returned
    keyIn, keyOut,  \* generate_cache_key: two argument tuples and their keys
    selIn, selOut,  \* _select_backend: its arguments and what it returned
    boot,           \* TTSManager.initialize: its position, the configuration it reads
                    \* and which backends' initialize() raise
    peer,           \* a second CacheManager, of the file tier, given the same calls as
                    \* the first: its cache_stats and what its last call returned
    be,             \* one backend object driven directly: its class, its attributes,
                    \* whether its engine or service answers, and its last call
    gen,            \* the generators of BaseTTSBackend.stream_speech being iterated:
                    \* each one's audio_data, loop index i and the chunks it yielded
    app,            \* the danmu_tts application: whether its lifespan has started, and
                    \* the registry of the manager instance of danmu_tts.main
    ws              \* WebSocketManager: active_connections, and the call of send_to_all
                    \* in progress (its iterator index, its `disconnected` list, the
                    \* sends it attempted, the list it started from and who left since)

vars == <<backends, available, settings, stats, req, now, memory_cache,
          cache_stats, cache_type, cache_dir, ret, keyIn, keyOut, selIn, selOut,
          boot, peer, be, gen, app, ws>>

managerVars == <<backends, available, settings, stats, req>>
cacheVars   == <<now, memory_cache, cache_stats, cache_type, cache_dir, ret>>
keyVars     == <<keyIn, keyOut>>
selVars     == <<selIn, selOut>>

-----------------------------------------------------------------------------
(* Strings *)

None == <<"None">>

Whitespace == {" ", "\t", "\n"}

RECURSIVE LStrip(_)
LStrip(s) ==
    IF s = <<>> THEN <<>>
    ELSE IF Head(s) \in Whitespace THEN LStrip(Tail(s)) ELSE s

RECURSIVE RStrip(_)
RStrip(s) ==
    IF s = <<>> THEN <<>>
    ELSE IF s[Len(s)] \in Whitespace THEN RStrip(SubSeq(s, 1, Len(s) - 1)) ELSE s

\* str.strip()
Strip(s) == RStrip(LStrip(s))

\* Python truthiness of an Optional[str]: None and "" are falsy
Truthy(s) == s # None /\ s # <<>>

\* `x or d`
Or(x, d) == IF Truthy(x) THEN x ELSE d

Edge  == <<"e", "d", "g", "e">>
Piper == <<"p", "i", "p", "e", "r">>
Xtts  == <<"x", "t", "t", "s">>
Names == {Edge, Piper, Xtts}

High   == <<"h", "i", "g", "h">>
Low    == <<"l", "o", "w">>
Fast   == <<"f", "a", "s", "t">>
Medium == <<"m", "e", "d", "i", "u", "m">>

DefaultVoice == <<"d", "e", "f", "a", "u", "l", "t">>
AutoBackend  == <<"a", "u", "t", "o">>

-----------------------------------------------------------------------------
(* src/src/utils.py *)

\* repr() of a str (no quote or backslash occurs in the modelled alphabet) or of None
Repr(x) == IF x = None THEN <<"N", "o", "n", "e">> ELSE <<"'">> \o x \o <<"'">>

\* str(sorted(kwargs.items())) for kwargs = {"quality": quality}
ReprKwargs(quality) ==
    <<"[", "(", "'", "q", "u", "a", "l", "i", "t", "y", "'", ",", " ">>
        \o Repr(quality) \o <<")", "]">>

\* key_data = f"{text}_{voice}_{backend}_{sorted(kwargs.items())}"
KeyData(text, voice, backend, quality) ==
    text \o <<"_">> \o voice \o <<"_">> \o backend \o <<"_">> \o ReprKwargs(quality)

\* hashlib.md5(...).hexdigest(): a digest, taken to be injective
Md5(s) == <<"md5", s>>

generate_cache_key(text, voice, backend, quality) ==
    Md5(KeyData(text, voice, backend, quality))

\* the key generate_speech derives for a request (tts_manager.py 91-93)
RequestKey(text, voice, backend, quality) ==
    generate_cache_key(text, Or(voice, DefaultVoice), Or(backend, AutoBackend), quality)

-----------------------------------------------------------------------------
(* Specification SpecKey: generate_cache_key applied to two requests *)

KeyTexts     == {<<"a">>, <<"a", "_", "b">>}
KeyVoices    == {None, DefaultVoice, <<"c">>, <<"b", "_", "c">>}
KeyBackends  == {None, AutoBackend, Edge}
KeyQualities == {None, High}
KeyArgs      == [text: KeyTexts, voice: KeyVoices, backend: KeyBackends, quality: KeyQualities]

IdleKey == keyIn = None /\ keyOut = None
NotSelected == [called |-> FALSE, early |-> FALSE, order |-> <<>>, chosen |-> None]

IdleSel ==
    /\ selIn = [preferred |-> None, quality |-> None]
    /\ selOut = NotSelected

\* initialize() has run to its end
Booted == boot = [pc |-> "done", enabled |-> {}, raises |-> {}, gpu |-> FALSE]

\* a backend object as its constructor leaves it (backends/base.py 113-116,
\* edge_tts.py 17-21; src/src/backends/xtts.py 21-31): `up` is whether the service,
\* binary or model the backend depends on answers at this moment
NewObject(impl, up) ==
    [impl |-> impl, up |-> up, init |-> "no", available |-> FALSE, model |-> "None",
     voices_cache |-> None, voices_ts |-> 0,
     last |-> [op |-> "none", out |-> None, raised |-> FALSE, external |-> FALSE]]

\* no backend object is driven directly
NoObject == be = NewObject("none", FALSE)

\* no WebSocketManager has been built
NoWs == ws = [active_connections |-> <<>>, pc |-> "off", i |-> 0, disconnected |-> <<>>,
              attempts |-> <<>>, before |-> <<>>, left |-> {}]

\* the danmu_tts application is not running
NoApp == app = [pc |-> "off", backends |-> {}, available |-> {}]

\* no backend stream is being iterated
NoGen == gen = <<>>

\* no second CacheManager is running
NoPeer ==
    peer = [cache_stats |-> [hits |-> 0, misses |-> 0, size_mb |-> 0],
            ret |-> [op |-> "off", value |-> None]]

\* two callers of generate_speech reach lines 91-93 with their arguments
KeyCall ==
    /\ keyOut = None
    /\ keyOut' = <<RequestKey(keyIn[1].text, keyIn[1].voice, keyIn[1].backend, keyIn[1].quality),
                   RequestKey(keyIn[2].text, keyIn[2].voice, keyIn[2].backend, keyIn[2].quality)>>
    /\ UNCHANGED <<ws, app, boot, peer, be, gen, keyIn, selVars, managerVars, cacheVars>>

-----------------------------------------------------------------------------
(* TTSManager._select_backend (tts_manager.py 200-229) *)

\* await backend.is_available()
IsAvailable(b) == b \in available

\* lines 211-220
PriorityOrderSwapped(quality) ==
    IF quality = High THEN <<Edge, Piper, Xtts>>
    ELSE IF quality = Low \/ quality = Fast THEN <<Xtts, Edge, Piper>>
    ELSE <<settings.primary_backend>> \o settings.fallback_backends

PriorityOrder(quality) ==
    IF quality = High THEN <<Xtts, Edge, Piper>>
    ELSE IF quality = Low \/ quality = Fast THEN <<Edge, Piper, Xtts>>
    ELSE <<settings.primary_backend>> \o settings.fallback_backends

\* lines 223-229: the walk from position i on; None when it runs off the end.
\* Each probe is an await, so the answers of one walk may come from different
\* instants; a walk probes each name of a duplicate-free order once, so its answers
\* are those of one availability set, and `available` is that set.
RECURSIVE WalkSkipCheck(_, _)
WalkSkipCheck(order, i) ==
    IF i > Len(order) THEN None
    ELSE IF order[i] \in backends THEN order[i]
    ELSE WalkSkipCheck(order, i + 1)

RECURSIVE Walk(_, _)
Walk(order, i) ==
    IF i > Len(order) THEN None
    ELSE IF order[i] \in backends /\ IsAvailable(order[i]) THEN order[i]
    ELSE Walk(order, i + 1)

\* lines 205-208: the early return for a named backend
NamedHit(preferred) ==
    Truthy(preferred) /\ preferred \in backends /\ IsAvailable(preferred)

select_backend(preferred, quality) ==
    IF NamedHit(preferred) THEN preferred
    ELSE Walk(PriorityOrder(quality), 1)

-----------------------------------------------------------------------------
(* Specification SpecSelect: _select_backend on every registry, availability, *)
(* configuration and argument pair                                            *)

MaxFallbacks == 2

RECURSIVE SeqsUpTo(_, _)
SeqsUpTo(S, n) ==
    IF n = 0 THEN {<<>>}
    ELSE LET shorter == SeqsUpTo(S, n - 1)
         IN  shorter \cup {Append(q, x) : q \in {p \in shorter : Len(p) = n - 1}, x \in S}

SettingsSet ==
    [primary_backend: Names, fallback_backends: SeqsUpTo(Names, MaxFallbacks)]

\* TTSConfig defaults (config.py 24-25)
DefaultSettings == [primary_backend |-> Edge, fallback_backends |-> <<Piper>>]

SelQualities == {None, Medium, High, Low, Fast}
SelArgs      == [preferred: {None} \cup Names, quality: SelQualities]

SelectCall ==
    /\ ~selOut.called
    /\ selOut' = [called |-> TRUE,
                  early  |-> NamedHit(selIn.preferred),
                  order  |-> IF NamedHit(selIn.preferred) THEN <<>>
                             ELSE PriorityOrder(selIn.quality),
                  chosen |-> select_backend(selIn.preferred, selIn.quality)]
    /\ UNCHANGED <<ws, app, boot, peer, be, gen, selIn, keyVars, managerVars, cacheVars>>


-----------------------------------------------------------------------------
(* Audio payloads *)

\* n frames of audio produced by nothing in particular
Frames(n) == [i \in 1..n |-> "pcm"]

\* utils.audio_to_base64: the text that encodes the bytes; base64_to_audio undoes it
audio_to_base64(audio) == <<"b64", audio>>
base64_to_audio(b64) == b64[2]

\* len() of a base64 text: four characters for every three bytes, padded
StrLen(b64) == 4 * ((Len(b64[2]) + 2) \div 3)

\* Python truthiness of what CacheManager.get returns (None or a str)
TruthyData(d) == d # None /\ StrLen(d) > 0

-----------------------------------------------------------------------------
(* src/src/cache_manager.py *)

\* settings.performance.cache.ttl_seconds and max_size_mb, scaled down; sizes are
\* counted in characters of payload instead of 1024 * 1024 of them
TTL       == 2
MaxSizeMb == 10

\* settings.performance.cache.enabled (config.py 43)
CacheEnabled == TRUE

\* data_size_mb = len(data.encode()) / (1024 * 1024)
SizeMb(data) == StrLen(data)

\* position of `key` in the dict, 0 when absent
IndexOf(cache, key) ==
    IF \E i \in 1..Len(cache) : cache[i].key = key
    THEN CHOOSE i \in 1..Len(cache) : cache[i].key = key
    ELSE 0

RemoveAt(cache, i) == SubSeq(cache, 1, i - 1) \o SubSeq(cache, i + 1, Len(cache))

\* _get_memory (93-106)
get_memory_inclusive(cache, cstats, key, t) ==
    LET i == IndexOf(cache, key) IN
    IF i = 0 THEN [cache |-> cache, stats |-> cstats, out |-> None]
    ELSE IF t - cache[i].timestamp <= TTL
         THEN [cache |-> cache, stats |-> [cstats EXCEPT !.hits = @ + 1],
               out |-> cache[i].data]
         ELSE [cache |-> RemoveAt(cache, i), stats |-> cstats, out |-> None]

get_memory(cache, cstats, key, t) ==
    LET i == IndexOf(cache, key) IN
    IF i = 0 THEN [cache |-> cache, stats |-> cstats, out |-> None]
    ELSE IF t - cache[i].timestamp < TTL
         THEN [cache |-> cache, stats |-> [cstats EXCEPT !.hits = @ + 1],
               out |-> cache[i].data]
         ELSE [cache |-> RemoveAt(cache, i), stats |-> cstats, out |-> None]

\* sorted(keys, key=timestamp): Python's sort is stable, so equal timestamps keep dict order
RECURSIVE InsertByTs(_, _)
InsertByTs(sorted, e) ==
    IF sorted = <<>> THEN <<e>>
    ELSE IF Head(sorted).timestamp <= e.timestamp
         THEN <<Head(sorted)>> \o InsertByTs(Tail(sorted), e)
         ELSE <<e>> \o sorted

RECURSIVE SortByTs(_)
SortByTs(cache) ==
    IF cache = <<>> THEN <<>>
    ELSE InsertByTs(SortByTs(SubSeq(cache, 1, Len(cache) - 1)), cache[Len(cache)])

SortedKeys(cache) == [i \in 1..Len(cache) |-> SortByTs(cache)[i].key]

\* the for loop of _evict_memory (192-197); target_size = max_size_mb * 0.8
RECURSIVE EvictLoop(_, _, _, _)
EvictLoop(cache, size, keys, i) ==
    IF i > Len(keys) \/ 5 * size <= 4 * MaxSizeMb
    THEN [cache |-> cache, size |-> size]
    ELSE LET j == IndexOf(cache, keys[i])
         IN  EvictLoop(RemoveAt(cache, j), size - cache[j].size_mb, keys, i + 1)

\* _evict_memory (179-199)
evict_memory(cache, size) ==
    IF cache = <<>> THEN [cache |-> cache, size |-> size]
    ELSE EvictLoop(cache, size, SortedKeys(cache), 1)

\* self.memory_cache[key] = entry: an existing key keeps its place in the dict
Put(cache, entry) ==
    LET i == IndexOf(cache, entry.key)
    IN  IF i = 0 THEN Append(cache, entry) ELSE [cache EXCEPT ![i] = entry]

\* a _set_memory that stored the entry first and evicted afterwards
set_memory_evicts_after(cache, cstats, key, data, t) ==
    LET size   == SizeMb(data)
        stored == Put(cache, [key |-> key, data |-> data,
                              timestamp |-> t, size_mb |-> size])
        ev     == IF cstats.size_mb + size > MaxSizeMb
                  THEN evict_memory(stored, cstats.size_mb + size)
                  ELSE [cache |-> stored, size |-> cstats.size_mb + size]
    IN  [cache |-> ev.cache, stats |-> [cstats EXCEPT !.size_mb = ev.size], out |-> TRUE]

\* _set_memory (108-124)
set_memory(cache, cstats, key, data, t) ==
    LET size == SizeMb(data)
        ev   == IF cstats.size_mb + size > MaxSizeMb
                THEN evict_memory(cache, cstats.size_mb)
                ELSE [cache |-> cache, size |-> cstats.size_mb]
    IN  [cache |-> Put(ev.cache, [key |-> key, data |-> data,
                                   timestamp |-> t, size_mb |-> size]),
         stats |-> [cstats EXCEPT !.size_mb = ev.size + size],
         out   |-> TRUE]

\* _get_file (126-144); reading a file that exists is taken to succeed
get_file(dir, cstats, key, t) ==
    IF \E f \in dir : f.key = key
    THEN LET f == CHOOSE g \in dir : g.key = key
         IN  IF t - f.mtime < TTL
             THEN [dir |-> dir, stats |-> [cstats EXCEPT !.hits = @ + 1], out |-> f.data]
             ELSE [dir |-> dir \ {f}, stats |-> cstats, out |-> None]
    ELSE [dir |-> dir, stats |-> cstats, out |-> None]

\* _set_file (146-156); writing is taken to succeed
set_file(dir, key, data, t) ==
    {f \in dir : f.key # key} \cup {[key |-> key, data |-> data, mtime |-> t]}

\* the body of one round of _cleanup_task (207-216)
RECURSIVE SumSizes(_)
SumSizes(cache) ==
    IF cache = <<>> THEN 0 ELSE Head(cache).size_mb + SumSizes(Tail(cache))

Expired(cache, t) == SelectSeq(cache, LAMBDA e : t - e.timestamp > TTL)
Unexpired(cache, t) == SelectSeq(cache, LAMBDA e : ~(t - e.timestamp > TTL))


\* CacheManager.get (58-74): the tier's answer is returned from inside the try, so the
\* misses counter after it is reached only when a tier raises
cache_get(key) ==
    IF ~CacheEnabled
    THEN [mem |-> memory_cache, dir |-> cache_dir, stats |-> cache_stats, out |-> None]
    ELSE IF cache_type = "memory"
    THEN LET r == get_memory(memory_cache, cache_stats, key, now)
         IN  [mem |-> r.cache, dir |-> cache_dir, stats |-> r.stats, out |-> r.out]
    ELSE LET r == get_file(cache_dir, cache_stats, key, now)
         IN  [mem |-> memory_cache, dir |-> r.dir, stats |-> r.stats, out |-> r.out]

\* CacheManager.set (76-91)
cache_set(key, data) ==
    IF ~CacheEnabled
    THEN [mem |-> memory_cache, dir |-> cache_dir, stats |-> cache_stats, out |-> FALSE]
    ELSE IF cache_type = "memory"
    THEN LET r == set_memory(memory_cache, cache_stats, key, data, now)
         IN  [mem |-> r.cache, dir |-> cache_dir, stats |-> r.stats, out |-> r.out]
    ELSE [mem |-> memory_cache, dir |-> set_file(cache_dir, key, data, now),
          stats |-> cache_stats, out |-> TRUE]

-----------------------------------------------------------------------------
(* Specification SpecCache: CacheManager driven directly through get, set, *)
(* clear and the background sweep, under a clock                           *)

MaxTime    == 3
MaxHits    == 2

CacheKeys == {RequestKey(<<"a">>, None, None, None), RequestKey(<<"a">>, None, Edge, None)}
CacheData == {audio_to_base64(Frames(n)) : n \in {0, 1, 4, 7}}

IdleManager ==
    /\ backends = {}
    /\ available = {}
    /\ settings = DefaultSettings
    /\ stats = [total_requests |-> 0, cache_hits |-> 0, backend_usage |-> <<>>]
    /\ req = <<>>

\* CacheManager.__init__ (17-27)
NewCache ==
    /\ now = 0
    /\ memory_cache = <<>>
    /\ cache_stats = [hits |-> 0, misses |-> 0, size_mb |-> 0]
    /\ cache_dir = {}
    /\ ret = [op |-> "none", value |-> None]

InitCache ==
    /\ Booted /\ NoPeer /\ NoObject /\ NoGen /\ NoApp /\ NoWs
    /\ NewCache
    /\ cache_type \in {"memory", "file"}
    /\ IdleManager /\ IdleKey /\ IdleSel

\* a caller of CacheManager.get
CacheGetOp(k) ==
    /\ cache_stats.hits < MaxHits
    /\ LET r == cache_get(k)
       IN  /\ memory_cache' = r.mem
           /\ cache_dir' = r.dir
           /\ cache_stats' = r.stats
           /\ ret' = [op |-> "get", value |-> r.out]
    /\ UNCHANGED <<ws, app, boot, peer, be, gen, now, cache_type, managerVars, keyVars, selVars>>

\* a caller of CacheManager.set
CacheSetOp(k, d) ==
    /\ cache_stats.size_mb + SizeMb(d) <= 2 * MaxSizeMb
    /\ LET r == cache_set(k, d)
       IN  /\ memory_cache' = r.mem
           /\ cache_dir' = r.dir
           /\ cache_stats' = r.stats
           /\ ret' = [op |-> "set", value |-> r.out]
    /\ UNCHANGED <<ws, app, boot, peer, be, gen, now, cache_type, managerVars, keyVars, selVars>>

\* a variant of clear that forgets to reset the tracked size
CacheClearKeepsSize ==
    /\ memory_cache' = <<>>
    /\ cache_dir' = {}
    /\ cache_stats' = [cache_stats EXCEPT !.hits = 0, !.misses = 0]
    /\ UNCHANGED <<ws, app, boot, peer, be, gen, now, ret, cache_type, managerVars, keyVars, selVars>>

\* CacheManager.clear (241-257)
CacheClear ==
    /\ IF cache_type = "memory"
       THEN /\ memory_cache' = <<>>
            /\ cache_stats' = [hits |-> 0, misses |-> 0, size_mb |-> 0]
            /\ UNCHANGED cache_dir
       ELSE /\ cache_dir' = {}
            /\ cache_stats' = [cache_stats EXCEPT !.hits = 0, !.misses = 0]
            /\ UNCHANGED memory_cache
    /\ UNCHANGED <<ws, app, boot, peer, be, gen, now, ret, cache_type, managerVars, keyVars, selVars>>

\* one round of CacheManager._cleanup_task (201-222), started for the memory tier only
CleanupTask ==
    /\ cache_type = "memory"
    /\ Expired(memory_cache, now) # <<>>
    /\ memory_cache' = Unexpired(memory_cache, now)
    /\ cache_stats' = [cache_stats EXCEPT
                          !.size_mb = @ - SumSizes(Expired(memory_cache, now))]
    /\ UNCHANGED <<ws, app, boot, peer, be, gen, now, ret, cache_type, cache_dir, managerVars, keyVars, selVars>>

\* time passes
Tick ==
    /\ now < MaxTime
    /\ now' = now + 1
    /\ UNCHANGED <<ws, app, boot, peer, be, gen, memory_cache, cache_stats, cache_type, cache_dir, ret,
                   managerVars, keyVars, selVars>>

NextCache ==
    \/ \E k \in CacheKeys : CacheGetOp(k)
    \/ \E k \in CacheKeys, d \in CacheData : CacheSetOp(k, d)
    \/ CacheClear
    \/ CleanupTask
    \/ Tick

SpecCache == InitCache /\ [][NextCache]_vars

-----------------------------------------------------------------------------
(* Specifications SpecKey and SpecSelect *)

IdleCache == NewCache /\ cache_type = "memory"

InitKey ==
    /\ Booted /\ NoPeer /\ NoObject /\ NoGen /\ NoApp /\ NoWs
    /\ keyIn \in KeyArgs \X KeyArgs
    /\ keyOut = None
    /\ IdleSel /\ IdleManager /\ IdleCache

SpecKey == InitKey /\ [][KeyCall]_vars

InitSelect ==
    /\ Booted /\ NoPeer /\ NoObject /\ NoGen /\ NoApp /\ NoWs
    /\ backends \in SUBSET Names
    /\ available \in SUBSET backends
    /\ settings \in SettingsSet
    /\ selIn \in SelArgs
    /\ selOut = NotSelected
    /\ stats = [total_requests |-> 0, cache_hits |-> 0, backend_usage |-> <<>>]
    /\ req = <<>>
    /\ IdleKey /\ IdleCache

SpecSelect == InitSelect /\ [][SelectCall]_vars


-----------------------------------------------------------------------------
(* Properties of _select_backend, checked under SpecSelect *)

\* C4: the priority order _select_backend builds depends on the quality tier only:
\* high gives xtts, edge, piper; low or fast gives edge, piper, xtts; anything else
\* (unspecified, medium) gives the configured primary backend followed by the
\* configured fallback backends in their configured order.
C4_PriorityOrderByQuality ==
    (selOut.called /\ ~selOut.early) =>
        selOut.order =
            CASE selIn.quality = High -> <<Xtts, Edge, Piper>>
              [] selIn.quality \in {Low, Fast} -> <<Edge, Piper, Xtts>>
              [] OTHER -> <<settings.primary_backend>> \o settings.fallback_backends

\* a high-quality call whose named backend is down builds the high-fidelity order
C4_Witness ==
    /\ selOut.called /\ ~selOut.early
    /\ selIn.quality = High
    /\ selIn.preferred = Piper /\ Piper \in backends \ available
    /\ selOut.order = <<Xtts, Edge, Piper>>

-----------------------------------------------------------------------------
(* Properties of generate_cache_key, checked under SpecKey *)

\* C10: two requests whose parameter tuples (text, voice, backend, quality) differ in
\* at least one field get different canonical strings, hence different cache keys;
\* fields may contain the separator, and an absent voice or backend is a different
\* request from one that spells out the default.
C10_DistinctRequestsDistinctKeys ==
    (keyOut # None /\ keyIn[1] # keyIn[2]) => keyOut[1] # keyOut[2]

-----------------------------------------------------------------------------
(* Properties of CacheManager, checked under SpecCache *)

Entries(cache) == {cache[i] : i \in 1..Len(cache)}

\* C6: an entry set at time T and still in the store is returned by get(key) at time
\* now if and only if now - T < ttl; at now - T >= ttl get returns no payload.
\* Both the memory tier and the file tier.
C6_GetHitsIffWithinTtl ==
    [][\A k \in CacheKeys :
          CacheGetOp(k) =>
            /\ \A e \in Entries(memory_cache) :
                  (cache_type = "memory" /\ e.key = k) =>
                      /\ (now - e.timestamp < TTL) => ret'.value = e.data
                      /\ (now - e.timestamp >= TTL) => ret'.value = None
            /\ \A f \in cache_dir :
                  (cache_type = "file" /\ f.key = k) =>
                      /\ (now - f.mtime < TTL) => ret'.value = f.data
                      /\ (now - f.mtime >= TTL) => ret'.value = None
      ]_vars

\* a get has returned the payload of an entry in the last instant of its life
C6_Witness ==
    /\ ret.op = "get" /\ ret.value # None
    /\ \E e \in Entries(memory_cache) :
          e.data = ret.value /\ now - e.timestamp = TTL - 1 /\ e.timestamp > 0

\* C7: a memory-tier set that finds tracked size + new payload over the budget removes
\* entries oldest first (none is removed while an older one stays) until the tracked
\* occupancy is at or below 80% of the budget.
C7_EvictsOldestDownToTarget ==
    [][\A k \in CacheKeys, d \in CacheData :
          ( /\ cache_type = "memory"
            /\ CacheSetOp(k, d)
            /\ cache_stats.size_mb + SizeMb(d) > MaxSizeMb ) =>
              LET removed == {e \in Entries(memory_cache) :
                                 e.key # k /\ IndexOf(memory_cache', e.key) = 0}
                  kept    == {e \in Entries(memory_cache') : e.key # k}
              IN  /\ \A r \in removed, e \in kept : r.timestamp <= e.timestamp
                  /\ 5 * (cache_stats'.size_mb - SizeMb(d)) <= 4 * MaxSizeMb
      ]_vars

\* C8: between sets, the memory tier's tracked size and the total size of its entries
\* stay within the budget max_size_mb.
C8_SizeWithinBudget ==
    cache_type = "memory" =>
        /\ cache_stats.size_mb <= MaxSizeMb
        /\ SumSizes(memory_cache) <= MaxSizeMb


-----------------------------------------------------------------------------
(* Backends (src/src/backends) *)

\* selected_backend.__class__.__name__
ClassName(b) ==
    CASE b = Edge  -> "EdgeTTSBackend"
      [] b = Piper -> "PiperTTSBackend"
      [] b = Xtts  -> "XTTSBackend"

\* `voice or self.default_voice`
BackendDefaultVoice == <<"self.default_voice">>

\* <backend>.generate_speech when the engine answers: b"" for a blank text
\* (edge_tts.py 39-40, piper_tts.py 49-50, xtts.py 69-70), else the engine's audio
\* for this text and voice
backend_generate_speech(b, text, voice) ==
    IF Strip(text) = <<>> THEN <<>>
    ELSE <<[engine |-> b, text |-> text, voice |-> Or(voice, BackendDefaultVoice)]>>

-----------------------------------------------------------------------------
(* Specification Spec: TTSManager serving generate_speech and stream_speech calls *)

MaxReqs == 2
Slots == 1..MaxReqs

\* the calls made: (text, voice, backend, quality) of generate_speech and
\* (text, voice, backend) of stream_speech
GenCalls ==
    { <<<<"a">>, None, None, None>>,
      <<<<"a">>, None, Piper, None>>,
      <<<<" ">>, None, None, None>> }
StreamCalls ==
    { <<<<"a">>, None, None>>,
      <<<<"a">>, None, Piper>> }

\* the registries initialize() leaves in the modelled deployments: edge alone, or
\* edge and piper (xtts needs a GPU and is registered in neither)
Registries == {{Edge}, {Edge, Piper}}

NoBackendError == "No available TTS backend"
BackendError   == "backend raised"

IdleReq ==
    [pc |-> "idle", kind |-> "none", text |-> None, voice |-> None, backend |-> None,
     quality |-> None, key |-> None, sel |-> None, audio |-> None, cached |-> FALSE,
     label |-> "", err |-> "", wrote |-> FALSE, conc |-> {}]

InFlight(r) == req[r].pc \in {"select", "synth", "streaming"}

\* TTSManager.__init__ and initialize (23-78): every configured backend that is
\* enabled is put in the registry; which ones answer their probe is the world's doing
Init ==
    /\ Booted /\ NoPeer /\ NoObject /\ NoGen /\ NoApp /\ NoWs
    /\ backends \in Registries
    /\ available \in SUBSET backends
    /\ settings = DefaultSettings
    /\ stats = [total_requests |-> 0, cache_hits |-> 0, backend_usage |-> <<>>]
    /\ req = [r \in Slots |-> IdleReq]
    /\ IdleCache /\ IdleKey /\ IdleSel

\* a backend's probe starts or stops answering
ProbeFlips(b) ==
    /\ b \in backends
    /\ \E r \in Slots : req[r].pc \in {"idle", "select"}
    /\ available' = IF b \in available THEN available \ {b} ELSE available \cup {b}
    /\ UNCHANGED <<ws, app, boot, peer, be, gen, backends, settings, stats, req, cacheVars, keyVars, selVars>>

\* generate_speech up to its first suspension (88-100): count the request, derive the
\* key, look the cache up; a truthy answer is returned at once
GenStart(r, text, voice, backend, quality) ==
    /\ req[r].pc = "idle"
    /\ \A q \in Slots : q < r => req[q].pc # "idle"
    /\ LET key  == RequestKey(text, voice, backend, quality)
           got  == cache_get(key)
           hit  == CacheEnabled /\ TruthyData(got.out)
           call == [IdleReq EXCEPT !.kind = "gen", !.text = text, !.voice = voice,
                       !.backend = backend, !.quality = quality, !.key = key,
                       !.conc = {q \in Slots : InFlight(q)}]
       IN  /\ memory_cache' = got.mem
           /\ cache_dir' = got.dir
           /\ cache_stats' = got.stats
           /\ stats' = [stats EXCEPT !.total_requests = @ + 1,
                                     !.cache_hits = IF hit THEN @ + 1 ELSE @]
           /\ req' = [req EXCEPT ![r] =
                        IF hit
                        THEN [call EXCEPT !.pc = "done", !.audio = got.out,
                                          !.cached = TRUE, !.label = "cache"]
                        ELSE [call EXCEPT !.pc = "select"]]
    /\ UNCHANGED <<ws, app, boot, peer, be, gen, backends, available, settings, now, cache_type, ret, keyVars, selVars>>

\* generate_speech 102-105: selection, or the "No available TTS backend" exception
GenSelect(r) ==
    /\ req[r].pc = "select"
    /\ LET sel == select_backend(req[r].backend, req[r].quality)
       IN  req' = [req EXCEPT ![r] =
                     IF sel = None
                     THEN [@ EXCEPT !.pc = "failed", !.err = NoBackendError]
                     ELSE [@ EXCEPT !.pc = "synth", !.sel = sel]]
    /\ UNCHANGED <<ws, app, boot, peer, be, gen, backends, available, settings, stats, cacheVars, keyVars, selVars>>

\* a variant that counts a synthesis twice
BumpTwice(usage, name) ==
    [n \in DOMAIN usage \cup {name} |->
        IF n = name THEN (IF name \in DOMAIN usage THEN usage[name] ELSE 0) + 2
        ELSE usage[n]]

\* backend_usage[name] = backend_usage.get(name, 0) + 1
Bump(usage, name) ==
    [n \in DOMAIN usage \cup {name} |->
        IF n = name THEN (IF name \in DOMAIN usage THEN usage[name] ELSE 0) + 1
        ELSE usage[n]]

\* generate_speech 107-130: the backend returns; encode, store, count, return
GenSynth(r) ==
    /\ req[r].pc = "synth"
    /\ LET audio_data == backend_generate_speech(req[r].sel, req[r].text, req[r].voice)
           audio_b64  == audio_to_base64(audio_data)
           put        == cache_set(req[r].key, audio_b64)
       IN  /\ memory_cache' = put.mem
           /\ cache_dir' = put.dir
           /\ cache_stats' = put.stats
           /\ stats' = [stats EXCEPT
                           !.backend_usage = Bump(@, ClassName(req[r].sel))]
           /\ req' = [req EXCEPT ![r] =
                        [@ EXCEPT !.pc = "done", !.audio = audio_b64,
                                  !.label = ClassName(req[r].sel),
                                  !.wrote = CacheEnabled]]
    /\ UNCHANGED <<ws, app, boot, peer, be, gen, backends, available, settings, now, cache_type, ret, keyVars, selVars>>

\* lines 108: a variant in which the manager answers a raise by trying another backend
GenSynthRaisesThenFallsBack(r) ==
    /\ req[r].pc = "synth"
    /\ Strip(req[r].text) # <<>>
    /\ \E b \in backends \ {req[r].sel} :
          req' = [req EXCEPT ![r] = [@ EXCEPT !.sel = b]]
    /\ UNCHANGED <<ws, app, boot, peer, be, gen, backends, available, settings, stats, cacheVars, keyVars, selVars>>

\* generate_speech 108: the backend raises (the engine fails on a text it was given;
\* a blank text returns before the engine is called) and the exception propagates
GenSynthRaises(r) ==
    /\ req[r].pc = "synth"
    /\ Strip(req[r].text) # <<>>
    /\ req' = [req EXCEPT ![r] = [@ EXCEPT !.pc = "failed", !.err = BackendError]]
    /\ UNCHANGED <<ws, app, boot, peer, be, gen, backends, available, settings, stats, cacheVars, keyVars, selVars>>

\* stream_speech 136-138, run when the generator is first iterated
StreamStart(r, text, voice, backend) ==
    /\ req[r].pc = "idle"
    /\ \A q \in Slots : q < r => req[q].pc # "idle"
    /\ LET sel  == select_backend(backend, None)
           call == [IdleReq EXCEPT !.kind = "stream", !.text = text, !.voice = voice,
                       !.backend = backend, !.conc = {q \in Slots : InFlight(q)}]
       IN  req' = [req EXCEPT ![r] =
                     IF sel = None
                     THEN [call EXCEPT !.pc = "failed", !.err = NoBackendError]
                     ELSE [call EXCEPT !.pc = "streaming", !.sel = sel]]
    /\ UNCHANGED <<ws, app, boot, peer, be, gen, backends, available, settings, stats, cacheVars, keyVars, selVars>>

\* a variant of the end of a stream that stores what was streamed
StreamEndCaching(r) ==
    /\ req[r].pc = "streaming"
    /\ LET key == RequestKey(req[r].text, req[r].voice, req[r].backend, None)
           put == cache_set(key, audio_to_base64(
                      backend_generate_speech(req[r].sel, req[r].text, req[r].voice)))
       IN  /\ memory_cache' = put.mem
           /\ cache_dir' = put.dir
           /\ cache_stats' = put.stats
    /\ req' = [req EXCEPT ![r] = [@ EXCEPT !.pc = "done", !.label = ClassName(req[r].sel)]]
    /\ UNCHANGED <<ws, app, boot, peer, be, gen, backends, available, settings, stats, now, cache_type, ret,
                   keyVars, selVars>>

\* stream_speech 140-141: the backend's stream is consumed to its end
StreamEnd(r) ==
    /\ req[r].pc = "streaming"
    /\ req' = [req EXCEPT ![r] = [@ EXCEPT !.pc = "done", !.label = ClassName(req[r].sel)]]
    /\ UNCHANGED <<ws, app, boot, peer, be, gen, backends, available, settings, stats, cacheVars, keyVars, selVars>>

\* stream_speech 140: the backend's stream raises
StreamRaises(r) ==
    /\ req[r].pc = "streaming"
    /\ Strip(req[r].text) # <<>>
    /\ req' = [req EXCEPT ![r] = [@ EXCEPT !.pc = "failed", !.err = BackendError]]
    /\ UNCHANGED <<ws, app, boot, peer, be, gen, backends, available, settings, stats, cacheVars, keyVars, selVars>>

\* stream_speech 140-141: the consumer stops iterating and closes the generator, which
\* leaves the `async for` at its yield
StreamAbandoned(r) ==
    /\ req[r].pc = "streaming"
    /\ req' = [req EXCEPT ![r] = [@ EXCEPT !.pc = "abandoned"]]
    /\ UNCHANGED <<ws, app, boot, peer, be, gen, backends, available, settings, stats, cacheVars, keyVars, selVars>>

\* CacheManager.clear called (by an operator, a test, an admin route) while requests
\* are in flight
ManagerClear ==
    /\ memory_cache # <<>> \/ cache_dir # {}
    /\ CacheClear

\* time passes; it is told apart only by its distance to a stored entry, and only
\* by a call that has yet to read the clock (the lookup at 97, the store at 115)
ManagerTick ==
    /\ memory_cache # <<>> \/ cache_dir # {}
    /\ \E r \in Slots : req[r].pc \in {"idle", "select", "synth"}
    /\ now < TTL
    /\ Tick

Next ==
    \/ \E b \in Names : ProbeFlips(b)
    \/ \E r \in Slots, c \in GenCalls : GenStart(r, c[1], c[2], c[3], c[4])
    \/ \E r \in Slots : GenSelect(r)
    \/ \E r \in Slots : GenSynth(r)
    \/ \E r \in Slots : GenSynthRaises(r)
    \/ \E r \in Slots, c \in StreamCalls : StreamStart(r, c[1], c[2], c[3])
    \/ \E r \in Slots : StreamEnd(r)
    \/ \E r \in Slots : StreamRaises(r)
    \/ \E r \in Slots : StreamAbandoned(r)
    \/ ManagerTick

Spec == Init /\ [][Next]_vars


-----------------------------------------------------------------------------
(* Properties of TTSManager, checked under Spec *)

SameCall(a, b) ==
    /\ a.kind = b.kind /\ a.text = b.text /\ a.voice = b.voice
    /\ a.backend = b.backend /\ a.quality = b.quality

\* slot r makes its call in this step
Starts(r) == req[r].pc = "idle" /\ req'[r].pc # "idle"

\* slot r runs _select_backend in this step
Selects(r) ==
    \/ req[r].pc = "select" /\ req'[r].pc # "select"
    \/ Starts(r) /\ req'[r].kind = "stream"

\* C1: with caching enabled, once a generate_speech call has completed, a later call
\* with the same (text, voice, backend, quality), made while the entry is in the store
\* and younger than the TTL, returns the same payload with cached = true and backend
\* label "cache", and invokes no backend.
C1_SecondCallIsAHit ==
    [][\A r \in Slots, p \in Slots :
          ( /\ CacheEnabled
            /\ Starts(r) /\ req'[r].kind = "gen"
            /\ req[p].pc = "done" /\ SameCall(req[p], req'[r])
            /\ \E e \in Entries(memory_cache) :
                  e.key = req[p].key /\ now - e.timestamp < TTL ) =>
              /\ req'[r].pc = "done"
              /\ req'[r].cached /\ req'[r].label = "cache"
              /\ req'[r].audio = req[p].audio
              /\ req'[r].sel = None
      ]_vars

\* C2: a call that names a backend which is not registered, or is registered but
\* whose availability check is false, fails and never gets another backend chosen
\* for it, whatever the other backends' availability.
C2_NamedBackendNeverReplaced ==
    [][\A r \in Slots :
          ( /\ Selects(r)
            /\ Truthy(req'[r].backend)
            /\ (req'[r].backend \notin backends \/ req'[r].backend \notin available) ) =>
              /\ req'[r].pc = "failed"
              /\ req'[r].sel = None
      ]_vars

\* first position of `order` holding a registered backend whose check is true, 0 if none
FirstUp(order) ==
    LET up == {i \in 1..Len(order) : order[i] \in backends /\ order[i] \in available}
    IN  IF up = {} THEN 0 ELSE CHOOSE i \in up : \A j \in up : i <= j

\* C3: with no backend named, selection returns the first backend of the priority
\* order that is registered and whose availability check is true (never one whose
\* check was false); when the order holds none, the call fails with the
\* no-backend-available error, no synthesis is invoked and the cache is not written.
C3_UnnamedSelectsFirstAvailable ==
    [][\A r \in Slots :
          (Selects(r) /\ ~Truthy(req'[r].backend)) =>
              LET order == PriorityOrder(req'[r].quality)
                  i     == FirstUp(order)
              IN  IF i = 0
                  THEN /\ req'[r].pc = "failed" /\ req'[r].err = NoBackendError
                       /\ req'[r].sel = None /\ ~req'[r].wrote
                       /\ memory_cache' = memory_cache /\ cache_stats' = cache_stats
                  ELSE /\ req'[r].pc \in {"synth", "streaming"}
                       /\ req'[r].sel = order[i]
                       /\ req'[r].sel \in available
      ]_vars

\* an unnamed call was given piper because edge, first in the order, was down
C3_Witness ==
    \E r \in Slots :
        /\ req[r].kind = "gen" /\ req[r].backend = None
        /\ req[r].pc = "synth" /\ req[r].sel = Piper
        /\ Edge \in backends \ available

\* C5: generate_speech with a text that is empty after trimming is rejected at once:
\* no cache lookup or write, no availability check, no synthesis, no audio returned.
C5_BlankTextRejected ==
    \A r \in Slots :
        (req[r].kind = "gen" /\ Strip(req[r].text) = <<>>) =>
            /\ req[r].pc = "failed"
            /\ req[r].sel = None /\ req[r].audio = None /\ ~req[r].wrote

\* C9: generate_speech calls with one cache key that run concurrently on a cold cache
\* make at most one synthesis each, leave exactly one entry for the key, and all
\* receive the same audio payload.
C9_ConcurrentSameKeySamePayload ==
    \A p \in Slots, r \in Slots :
        ( /\ p \in req[r].conc
          /\ req[p].kind = "gen" /\ req[r].kind = "gen"
          /\ req[p].key = req[r].key
          /\ req[p].pc = "done" /\ req[r].pc = "done" ) =>
            /\ req[p].audio = req[r].audio
            /\ Cardinality({i \in 1..Len(memory_cache) : memory_cache[i].key = req[r].key}) = 1

\* C11: every unexpired entry under key K holds the payload that a request mapping to
\* K would get from a synthesis made now, also for a request that names no backend
\* after the backends' availability has changed.
C11_EntryIsWhatSynthesisGivesNow ==
    \A i \in 1..Len(memory_cache), c \in GenCalls :
        LET e   == memory_cache[i]
            sel == select_backend(c[3], c[4])
        IN  ( /\ RequestKey(c[1], c[2], c[3], c[4]) = e.key
              /\ now - e.timestamp < TTL
              /\ sel # None ) =>
                e.data = audio_to_base64(backend_generate_speech(sel, c[1], c[2]))

-----------------------------------------------------------------------------
(* Specification SpecApi: the HTTP layer of the danmu_tts package             *)
(* (src/danmu_tts/api/tts.py over src/danmu_tts/manager.py), whose registry   *)
(* holds the edge backend alone and whose `available` flags are set once, by  *)
(* initialize()                                                               *)

\* the (text, backend) of the POST /tts/ requests made
ApiCalls ==
    { <<<<"a">>, None>>, <<<<"a">>, Edge>>, <<<<"a">>, Piper>>,
      <<<<"b", " ">>, Edge>>, <<<<" ">>, None>> }

\* TTSRequest.validate_text (models/requests.py 40-45)
ValidationError == "422: Text cannot be empty or only whitespace"
\* get_backend / get_default_backend (manager.py 34-48), re-raised by the handler's
\* `except Exception` (api/tts.py 40-41) as a 500 carrying the first one's text
NotFound500     == "500: 404: Backend not found"
Unavailable500  == "500: 503: Backend is not available"
NoBackends500   == "500: 503: No backends available"
SynthesisError500 == "500: backend raised"

\* tts_manager.get_backend(name) (manager.py 34-41): the backend, or the error raised
get_backend(name) ==
    IF name \notin backends THEN [ok |-> FALSE, backend |-> None, err |-> NotFound500]
    ELSE IF name \notin available
         THEN [ok |-> FALSE, backend |-> None, err |-> Unavailable500]
         ELSE [ok |-> TRUE, backend |-> name, err |-> ""]

\* tts_manager.get_default_backend() (manager.py 43-48): the registry is walked in dict
\* order, which is <<edge>>
get_default_backend ==
    LET b == Walk(<<Edge>>, 1)
    IN  IF b = None THEN [ok |-> FALSE, backend |-> None, err |-> NoBackends500]
        ELSE [ok |-> TRUE, backend |-> b, err |-> ""]

\* danmu_tts TTSManager.initialize (manager.py 21-27): edge is registered when enabled;
\* its initialize() swallows a failure and leaves `available` false (edge_tts.py 23-31)
InitApi ==
    /\ Booted /\ NoPeer /\ NoObject /\ NoGen /\ NoApp /\ NoWs
    /\ backends \in {{}, {Edge}}
    /\ available \in SUBSET backends
    /\ settings = DefaultSettings
    /\ stats = [total_requests |-> 0, cache_hits |-> 0, backend_usage |-> <<>>]
    /\ req = [r \in Slots |-> IdleReq]
    /\ IdleCache /\ IdleKey /\ IdleSel

\* a request whose text is blank never reaches the handler
ApiRejects(r, text, backend) ==
    /\ req[r].pc = "idle"
    /\ \A q \in Slots : q < r => req[q].pc # "idle"
    /\ Strip(text) = <<>>
    /\ req' = [req EXCEPT ![r] =
                 [IdleReq EXCEPT !.kind = "gen", !.text = text, !.backend = backend,
                                 !.pc = "failed", !.err = ValidationError]]
    /\ UNCHANGED <<ws, app, boot, peer, be, gen, backends, available, settings, stats, cacheVars, keyVars, selVars>>

\* synthesize_text up to its await (api/tts.py 18-29): look the backend up, then count
ApiStart(r, text, backend) ==
    /\ req[r].pc = "idle"
    /\ \A q \in Slots : q < r => req[q].pc # "idle"
    /\ Strip(text) # <<>>
    /\ LET got  == IF Truthy(backend) THEN get_backend(backend) ELSE get_default_backend
           call == [IdleReq EXCEPT !.kind = "gen", !.text = Strip(text),
                                   !.backend = backend]
       IN  IF got.ok
           THEN /\ stats' = [stats EXCEPT !.total_requests = @ + 1]
                /\ req' = [req EXCEPT ![r] =
                             [call EXCEPT !.pc = "synth", !.sel = got.backend]]
           ELSE /\ stats' = stats
                /\ req' = [req EXCEPT ![r] =
                             [call EXCEPT !.pc = "failed", !.err = got.err]]
    /\ UNCHANGED <<ws, app, boot, peer, be, gen, backends, available, settings, cacheVars, keyVars, selVars>>

\* backend.synthesize returns a TTSResult and the handler answers (api/tts.py 29-38)
ApiSynth(r) ==
    /\ req[r].pc = "synth"
    /\ req' = [req EXCEPT ![r] =
                 [@ EXCEPT !.pc = "done", !.label = "edge",
                           !.audio = audio_to_base64(
                               backend_generate_speech(req[r].sel, req[r].text, req[r].voice))]]
    /\ UNCHANGED <<ws, app, boot, peer, be, gen, backends, available, settings, stats, cacheVars, keyVars, selVars>>

\* backend.synthesize raises (edge_tts.py 43-66) and the handler answers 500
ApiSynthRaises(r) ==
    /\ req[r].pc = "synth"
    /\ req' = [req EXCEPT ![r] = [@ EXCEPT !.pc = "failed", !.err = SynthesisError500]]
    /\ UNCHANGED <<ws, app, boot, peer, be, gen, backends, available, settings, stats, cacheVars, keyVars, selVars>>

\* the generator of a stream raised after the response had begun
StreamBroken == "200: stream broken"

\* stream_synthesize up to its return (api/tts.py 45-77): `backend` defaults to "edge"
\* when the query leaves it out; the text need only be non-empty (min_length=1)
ApiStreamStart(r, text, backend) ==
    /\ req[r].pc = "idle"
    /\ \A q \in Slots : q < r => req[q].pc # "idle"
    /\ Len(text) >= 1
    /\ LET name == IF backend = None THEN Edge ELSE backend
           got  == IF Truthy(name) THEN get_backend(name) ELSE get_default_backend
           call == [IdleReq EXCEPT !.kind = "stream", !.text = text, !.backend = name]
       IN  IF got.ok
           THEN /\ stats' = [stats EXCEPT !.total_requests = @ + 1]
                /\ req' = [req EXCEPT ![r] =
                             [call EXCEPT !.pc = "streaming", !.sel = got.backend]]
           ELSE /\ stats' = stats
                /\ req' = [req EXCEPT ![r] =
                             [call EXCEPT !.pc = "failed", !.err = got.err]]
    /\ UNCHANGED <<ws, app, boot, peer, be, gen, backends, available, settings, cacheVars, keyVars, selVars>>

\* audio_generator (api/tts.py 62-68) is consumed to its end
ApiStreamEnd(r) ==
    /\ req[r].pc = "streaming"
    /\ req' = [req EXCEPT ![r] = [@ EXCEPT !.pc = "done", !.label = "edge"]]
    /\ UNCHANGED <<ws, app, boot, peer, be, gen, backends, available, settings, stats, cacheVars, keyVars, selVars>>

\* tts.stream() raises inside audio_generator, outside the handler's try block
ApiStreamBreaks(r) ==
    /\ req[r].pc = "streaming"
    /\ req' = [req EXCEPT ![r] = [@ EXCEPT !.pc = "failed", !.err = StreamBroken]]
    /\ UNCHANGED <<ws, app, boot, peer, be, gen, backends, available, settings, stats, cacheVars, keyVars, selVars>>

NextApi ==
    \/ \E r \in Slots, c \in ApiCalls : ApiRejects(r, c[1], c[2])
    \/ \E r \in Slots, c \in ApiCalls : ApiStart(r, c[1], c[2])
    \/ \E r \in Slots : ApiSynth(r)
    \/ \E r \in Slots : ApiSynthRaises(r)
    \/ \E r \in Slots, c \in ApiCalls : ApiStreamStart(r, c[1], c[2])
    \/ \E r \in Slots : ApiStreamEnd(r)
    \/ \E r \in Slots : ApiStreamBreaks(r)

SpecApi == InitApi /\ [][NextApi]_vars

\* the errors of a generate request that C13 names
SelectionErrors == {NoBackendError, NotFound500, Unavailable500, NoBackends500}
SynthesisErrors == {BackendError, SynthesisError500}

\* C13: every generate request that fails for want of a backend (none available, or
\* the named one unavailable) or by a synthesis error has raised the total-request
\* counter by exactly one, at its start, and changes neither the cache-hit counter
\* nor a per-backend usage counter.
C13_FailedRequestCountedOnce ==
    [][\A r \in Slots :
          /\ ( /\ req'[r].kind = "gen" /\ req[r].pc # "failed" /\ req'[r].pc = "failed"
               /\ req'[r].err \in SelectionErrors \cup SynthesisErrors ) =>
                 /\ stats'.cache_hits = stats.cache_hits
                 /\ stats'.backend_usage = stats.backend_usage
                 /\ stats'.total_requests =
                        stats.total_requests + (IF req[r].pc = "idle" THEN 1 ELSE 0)
          /\ ( /\ Starts(r) /\ req'[r].kind = "gen"
               /\ req'[r].pc \notin {"failed", "done"} ) =>
                 stats'.total_requests = stats.total_requests + 1
      ]_vars

-----------------------------------------------------------------------------
(* Specification SpecFile: TTSManager over the file tier, whose writes can fail *)

InitFile ==
    /\ Booted /\ NoPeer /\ NoObject /\ NoGen /\ NoApp /\ NoWs
    /\ backends \in Registries
    /\ available \in SUBSET backends
    /\ settings = DefaultSettings
    /\ stats = [total_requests |-> 0, cache_hits |-> 0, backend_usage |-> <<>>]
    /\ req = [r \in Slots |-> IdleReq]
    /\ NewCache /\ cache_type = "file"
    /\ IdleKey /\ IdleSel

\* _set_file (146-156) when open() or f.write() raises: the exception is caught and
\* False returned; open() failing leaves the directory as it was, f.write() failing
\* leaves the file truncated by open(..., "w")
set_file_fails(dir, key, t, torn) ==
    IF torn THEN set_file(dir, key, audio_to_base64(<<>>), t) ELSE dir

\* a variant in which the failure of the write reaches the caller
GenSynthWriteFailsPropagates(r, torn) ==
    /\ req[r].pc = "synth"
    /\ cache_type = "file" /\ CacheEnabled
    /\ cache_dir' = set_file_fails(cache_dir, req[r].key, now, torn)
    /\ req' = [req EXCEPT ![r] = [@ EXCEPT !.pc = "failed", !.err = "Cache set error"]]
    /\ UNCHANGED <<ws, app, boot, peer, be, gen, backends, available, settings, stats, now, memory_cache, cache_stats,
                   cache_type, ret, keyVars, selVars>>

\* generate_speech 107-130 when the tier's write fails: CacheManager.set (76-91)
\* returns False, which line 115 does not look at
GenSynthWriteFails(r, torn) ==
    /\ req[r].pc = "synth"
    /\ cache_type = "file" /\ CacheEnabled
    /\ LET audio_data == backend_generate_speech(req[r].sel, req[r].text, req[r].voice)
           audio_b64  == audio_to_base64(audio_data)
       IN  /\ cache_dir' = set_file_fails(cache_dir, req[r].key, now, torn)
           /\ stats' = [stats EXCEPT
                           !.backend_usage = Bump(@, ClassName(req[r].sel))]
           /\ req' = [req EXCEPT ![r] =
                        [@ EXCEPT !.pc = "done", !.audio = audio_b64,
                                  !.label = ClassName(req[r].sel)]]
    /\ UNCHANGED <<ws, app, boot, peer, be, gen, backends, available, settings, now, memory_cache, cache_stats,
                   cache_type, ret, keyVars, selVars>>

\* the generate_speech calls alone: streams never reach the cache
NextFile ==
    \/ \E r \in Slots, c \in GenCalls : GenStart(r, c[1], c[2], c[3], c[4])
    \/ \E r \in Slots : GenSelect(r)
    \/ \E r \in Slots : GenSynth(r)
    \/ \E r \in Slots, torn \in BOOLEAN : GenSynthWriteFails(r, torn)
    \/ ManagerTick

SpecFile == InitFile /\ [][NextFile]_vars

\* C14: when the cache write at the end of generate_speech fails, the call still
\* returns the freshly synthesized audio with the backend's label, raises that
\* backend's usage counter by one, and reports no error.
C14_WriteFailureStillReturnsAudio ==
    [][\A r \in Slots :
          (\E torn \in BOOLEAN : GenSynthWriteFails(r, torn)) =>
              /\ req'[r].pc = "done" /\ req'[r].err = ""
              /\ req'[r].audio = audio_to_base64(
                     backend_generate_speech(req[r].sel, req[r].text, req[r].voice))
              /\ req'[r].label = ClassName(req[r].sel) /\ ~req'[r].cached
              /\ stats'.backend_usage = Bump(stats.backend_usage, ClassName(req[r].sel))
              /\ stats'.total_requests = stats.total_requests
      ]_vars

\* a call returned piper's audio although nothing could be written under its key
C14_Witness ==
    \E r \in Slots :
        /\ cache_type = "file"
        /\ req[r].kind = "gen" /\ req[r].pc = "done" /\ ~req[r].wrote
        /\ req[r].sel = Piper /\ req[r].label = "PiperTTSBackend"
        /\ req[r].audio # None /\ StrLen(req[r].audio) > 0
        /\ \A f \in cache_dir : f.key # req[r].key

-----------------------------------------------------------------------------
(* TTSManager.get_stats (tts_manager.py 184-198) *)

\* max(self.stats["total_requests"], 1)
Max(a, b) == IF a >= b THEN a ELSE b

\* a variant that leaves the percentage out
cache_hit_rate_fraction(st) ==
    [num |-> st.cache_hits, den |-> Max(st.total_requests, 1)]

\* cache_hit_rate = (cache_hits / max(total_requests, 1)) * 100, kept as the exact
\* fraction num / den (the float's rounding is not modelled)
cache_hit_rate(st) ==
    [num |-> st.cache_hits * 100, den |-> Max(st.total_requests, 1)]

\* ServerStats as get_stats fills it from self.stats
get_stats ==
    [total_requests |-> stats.total_requests, cache_hit_rate |-> cache_hit_rate(stats)]

\* the counters agree with the calls made
StatsAgree ==
    LET made   == {r \in Slots : req[r].kind = "gen"}
        served == {r \in Slots : req[r].kind = "gen" /\ req[r].cached}
        rate   == get_stats.cache_hit_rate
    IN  /\ get_stats.total_requests = Cardinality(made)
        /\ stats.cache_hits = Cardinality(served)
        /\ IF Cardinality(made) = 0
           THEN rate.num = 0
           ELSE rate.num * Cardinality(made) = 100 * Cardinality(served) * rate.den

\* C15: total_requests equals the number of generate_speech calls made (hit, miss or
\* failure, each once), the cache-hit counter equals the number served from the
\* cache, cache_hit_rate is 100 * cache_hits / total_requests (0 with no request),
\* and neither counter ever decreases.
C15_CountersMatchCalls ==
    [][ /\ StatsAgree'
        /\ stats'.total_requests >= stats.total_requests
        /\ stats'.cache_hits >= stats.cache_hits
      ]_vars

\* two calls were made, the second served from the cache: a hit rate of 50%
C15_Witness ==
    /\ \A r \in Slots : r <= 2 => req[r].kind = "gen" /\ req[r].pc = "done"
    /\ req[1].wrote /\ req[2].cached
    /\ get_stats.total_requests = 2
    /\ get_stats.cache_hit_rate = [num |-> 100, den |-> 2]

-----------------------------------------------------------------------------
(* Streaming and the cache, checked under Spec *)

\* C16: no step of a stream_speech call (its selection, its end, its backend's
\* failure, its consumer abandoning it) adds, overwrites or removes a cache entry or
\* changes the cache's counters.
C16_StreamLeavesCacheAlone ==
    [][\A r \in Slots :
          (req'[r].kind = "stream" /\ req'[r] # req[r]) =>
              /\ memory_cache' = memory_cache
              /\ cache_dir' = cache_dir
              /\ cache_stats' = cache_stats
      ]_vars

\* a stream for ("a", no voice, no backend) was consumed to its end after a
\* generate_speech call, and a second entry was not made for it
C16_Witness ==
    \E r \in Slots, g \in Slots :
        /\ req[r].kind = "stream" /\ req[r].pc = "done" /\ req[r].sel = Edge
        /\ req[g].kind = "gen" /\ req[g].pc = "done" /\ req[g].wrote
        /\ Len(memory_cache) = 1

-----------------------------------------------------------------------------
(* Specification SpecBoot: TTSManager.initialize (tts_manager.py 35-78), then *)
(* a selection on the registry it built                                       *)

\* settings.tts.backends[name]["enabled"], which backends' initialize() raise, and
\* whether check_gpu_availability() reports a GPU
BootConfigs ==
    [pc: {"edge"}, enabled: SUBSET Names, raises: SUBSET Names, gpu: BOOLEAN]

BootSelArgs == [preferred: {None, Piper}, quality: {None, High}]

InitBoot ==
    /\ boot \in BootConfigs
    /\ NoPeer /\ NoObject /\ NoGen /\ NoApp /\ NoWs
    /\ backends = {}
    /\ available = {}
    /\ settings = DefaultSettings
    /\ stats = [total_requests |-> 0, cache_hits |-> 0, backend_usage |-> <<>>]
    /\ req = [r \in Slots |-> IdleReq]
    /\ selIn \in BootSelArgs
    /\ selOut = NotSelected
    /\ IdleCache /\ IdleKey

\* lines 46-52 (edge) and 55-61 (piper): the instance is put in self.backends, then
\* its initialize() is awaited; an exception is logged by the except clause, which
\* takes nothing out of self.backends
InitializeBackend(b, then) ==
    /\ boot.pc = CASE b = Edge -> "edge" [] b = Piper -> "piper"
    /\ backends' = IF b \in boot.enabled THEN backends \cup {b} ELSE backends
    /\ boot' = [boot EXCEPT !.pc = then]
    /\ UNCHANGED <<ws, app, peer, be, gen, available, settings, stats, req, cacheVars, keyVars, selVars>>

\* lines 64-74: xtts is constructed, registered and initialized only with a GPU
InitializeXtts ==
    /\ boot.pc = "xtts"
    /\ backends' = IF Xtts \in boot.enabled /\ boot.gpu
                   THEN backends \cup {Xtts} ELSE backends
    /\ boot' = [boot EXCEPT !.pc = "done"]
    /\ UNCHANGED <<ws, app, peer, be, gen, available, settings, stats, req, cacheVars, keyVars, selVars>>

\* a call of _select_backend once initialize() has returned
BootSelect ==
    /\ boot.pc = "done"
    /\ ~selOut.called
    /\ selOut' = [called |-> TRUE,
                  early  |-> NamedHit(selIn.preferred),
                  order  |-> IF NamedHit(selIn.preferred) THEN <<>>
                             ELSE PriorityOrder(selIn.quality),
                  chosen |-> select_backend(selIn.preferred, selIn.quality)]
    /\ UNCHANGED <<ws, app, boot, peer, be, gen, selIn, keyVars, managerVars, cacheVars>>

\* a registered backend's probe starts or stops answering, before the selection
BootProbeFlips(b) ==
    /\ boot.pc = "done" /\ ~selOut.called
    /\ ProbeFlips(b)

NextBoot ==
    \/ InitializeBackend(Edge, "piper")
    \/ InitializeBackend(Piper, "xtts")
    \/ InitializeXtts
    \/ \E b \in Names : BootProbeFlips(b)
    \/ BootSelect

SpecBoot == InitBoot /\ [][NextBoot]_vars

\* C17: once initialize has completed, the registry holds exactly the enabled
\* backends whose initialize() succeeded (xtts only with a GPU), and selection never
\* returns a backend whose initialize() raised.
C17_RegistryHoldsInitializedOnly ==
    boot.pc = "done" =>
        /\ backends = {b \in boot.enabled :
                          b \notin boot.raises /\ (b = Xtts => boot.gpu)}
        /\ selOut.called => selOut.chosen \notin boot.raises

-----------------------------------------------------------------------------
(* Specification SpecClear: CacheManager.clear interleaved with the steps of *)
(* generate_speech calls on the memory tier                                  *)

NextClear ==
    \/ \E r \in Slots, c \in GenCalls : GenStart(r, c[1], c[2], c[3], c[4])
    \/ \E r \in Slots : GenSelect(r)
    \/ \E r \in Slots : GenSynth(r)
    \/ ManagerClear
    \/ ManagerTick

SpecClear == Init /\ [][NextClear]_vars

\* every field of the entry is what one _set_memory call wrote
WrittenByOneSet(e) ==
    /\ e.size_mb = SizeMb(e.data)
    /\ e.timestamp <= now
    /\ \E r \in Slots :
          /\ req[r].wrote /\ req[r].key = e.key /\ req[r].audio = e.data

-----------------------------------------------------------------------------
(* Specification SpecCacheFair: SpecCache with the sweep scheduled fairly.    *)
(* _cleanup_task is an endless loop that sleeps and sweeps (201-222), so a    *)
(* sweep that stays possible is eventually made; initialize() starts the task *)
(* for the memory tier only (52-54).                                          *)

SpecCacheFair == InitCache /\ [][NextCache]_vars /\ WF_vars(CleanupTask)

\* the store holds, under key k, what was written at time t, in either tier
Holds(k, t) ==
    \/ \E e \in Entries(memory_cache) : e.key = k /\ e.timestamp = t
    \/ \E f \in cache_dir : f.key = k /\ f.mtime = t

\* C19: with the sweep task scheduled fairly, every entry of the Cache Store whose
\* age exceeds the TTL is eventually removed, even if no get or set follows, and a
\* sweep subtracts the sizes of what it removes from the tracked size.
C19_ExpiredEntriesEventuallySwept ==
    /\ \A k \in CacheKeys, t \in 0..MaxTime :
          (Holds(k, t) /\ now - t > TTL) ~> ~Holds(k, t)
    /\ [][CleanupTask =>
            cache_stats'.size_mb + SumSizes(Expired(memory_cache, now))
                = cache_stats.size_mb]_vars

\* C20: with caching enabled, every CacheManager.get raises exactly one counter by
\* one: hits when it returns a payload, misses when it returns none (key absent or
\* entry expired), so that hits + misses counts the gets.
C20_GetCountsHitOrMiss ==
    [][\A k \in CacheKeys :
          (CacheEnabled /\ CacheGetOp(k)) =>
              IF ret'.value # None
              THEN /\ cache_stats'.hits = cache_stats.hits + 1
                   /\ cache_stats'.misses = cache_stats.misses
              ELSE /\ cache_stats'.misses = cache_stats.misses + 1
                   /\ cache_stats'.hits = cache_stats.hits
      ]_vars

-----------------------------------------------------------------------------
(* Specification SpecTiers: two CacheManagers, one of the memory tier and one  *)
(* of the file tier, given the same get, set and clear calls under one clock,  *)
(* the same TTL and the same max_size_mb.  The first keeps its state in        *)
(* memory_cache and cache_stats, the second in cache_dir and peer.             *)

InitTiers ==
    /\ Booted /\ NoObject /\ NoGen /\ NoApp /\ NoWs
    /\ NewCache
    /\ cache_type = "memory"
    /\ peer = [cache_stats |-> [hits |-> 0, misses |-> 0, size_mb |-> 0],
               ret |-> [op |-> "none", value |-> None]]
    /\ IdleManager /\ IdleKey /\ IdleSel

\* get(k) on both: _get_memory (93-106) and _get_file (126-144)
TiersGet(k) ==
    /\ cache_stats.hits < MaxHits /\ peer.cache_stats.hits < MaxHits
    /\ LET m == get_memory(memory_cache, cache_stats, k, now)
           f == get_file(cache_dir, peer.cache_stats, k, now)
       IN  /\ memory_cache' = m.cache
           /\ cache_stats' = m.stats
           /\ ret' = [op |-> "get", value |-> m.out]
           /\ cache_dir' = f.dir
           /\ peer' = [cache_stats |-> f.stats, ret |-> [op |-> "get", value |-> f.out]]
    /\ UNCHANGED <<ws, app, boot, be, gen, now, cache_type, managerVars, keyVars, selVars>>

\* set(k, d) on both: _set_memory (108-124) and _set_file (146-156)
TiersSet(k, d) ==
    /\ cache_stats.size_mb + SizeMb(d) <= 2 * MaxSizeMb
    /\ LET m == set_memory(memory_cache, cache_stats, k, d, now)
       IN  /\ memory_cache' = m.cache
           /\ cache_stats' = m.stats
           /\ ret' = [op |-> "set", value |-> m.out]
    /\ cache_dir' = set_file(cache_dir, k, d, now)
    /\ peer' = [peer EXCEPT !.ret = [op |-> "set", value |-> TRUE]]
    /\ UNCHANGED <<ws, app, boot, be, gen, now, cache_type, managerVars, keyVars, selVars>>

\* clear() on both (241-257)
TiersClear ==
    /\ memory_cache' = <<>>
    /\ cache_stats' = [hits |-> 0, misses |-> 0, size_mb |-> 0]
    /\ cache_dir' = {}
    /\ peer' = [peer EXCEPT !.cache_stats.hits = 0, !.cache_stats.misses = 0]
    /\ UNCHANGED <<ws, app, boot, be, gen, now, ret, cache_type, managerVars, keyVars, selVars>>

NextTiers ==
    \/ \E k \in CacheKeys : TiersGet(k)
    \/ \E k \in CacheKeys, d \in CacheData : TiersSet(k, d)
    \/ TiersClear
    \/ CleanupTask
    \/ Tick

SpecTiers == InitTiers /\ [][NextTiers]_vars

\* C21: the memory tier and the file tier, given the same sets, gets and clears under
\* the same clock, TTL and size budget, answer every get alike (the same payload or
\* a miss), also after the budget was exceeded and after entries expired.
C21_TiersAnswerAlike ==
    (ret.op = "get" /\ peer.ret.op = "get") => ret.value = peer.ret.value

-----------------------------------------------------------------------------
(* Specification SpecCancel: generate_speech calls whose task the transport    *)
(* may cancel while it waits for the backend.  The event loop runs every task  *)
(* that is ready, so selection and the return of a backend are fair; a task    *)
(* that was cancelled has been unwound by CancelledError and runs no more.     *)

\* the task awaiting selected_backend.generate_speech (108) is cancelled:
\* CancelledError is raised at that await, nothing in generate_speech or in
\* text_to_speech (`except Exception`, app.py 92) catches or shields it, and the
\* lines after the await (111-130) are never run
GenCancelled(r) ==
    /\ req[r].pc = "synth"
    /\ req' = [req EXCEPT ![r] = [@ EXCEPT !.pc = "cancelled"]]
    /\ UNCHANGED <<ws, app, boot, peer, be, gen, backends, available, settings, stats, cacheVars, keyVars, selVars>>

NextCancel ==
    \/ \E r \in Slots, c \in GenCalls : GenStart(r, c[1], c[2], c[3], c[4])
    \/ \E r \in Slots : GenSelect(r)
    \/ \E r \in Slots : GenSynth(r)
    \/ \E r \in Slots : GenCancelled(r)
    \/ ManagerTick

SpecCancel ==
    /\ Init
    /\ [][NextCancel]_vars
    /\ \A r \in Slots : WF_vars(GenSelect(r)) /\ WF_vars(GenSynth(r))

\* C22: a generate request cancelled by the transport while its backend call is in
\* progress still has its synthesis completed and, eventually, its result written
\* to the cache under its key (a later identical request is a hit); the cancelled
\* caller is delivered nothing.
C22_CancelledResultStillCached ==
    /\ \A r \in Slots :
          (req[r].pc = "cancelled") ~>
              (\E e \in Entries(memory_cache) : e.key = req[r].key)
    /\ [](\A r \in Slots : req[r].pc = "cancelled" => req[r].audio = None)

-----------------------------------------------------------------------------
(* The status codes of the /tts and /tts/stream handlers, checked under SpecApi *)

\* the status of the response that carries error e: a validation error is answered
\* by the framework; every exception raised inside a handler's try block, the
\* HTTPExceptions of get_backend and get_default_backend included, is caught by
\* `except Exception` and re-raised with status_code=500 (api/tts.py 40-41, 79-80)
ApiStatus(e) ==
    CASE e = ValidationError -> 422
      [] e = StreamBroken -> 200
      [] OTHER -> 500

\* C23: the /tts and /tts/stream handlers keep the error kinds apart: a request
\* naming an unregistered backend is answered 404, one naming a registered but
\* unavailable backend, or finding no available backend, is answered 503, and only
\* internal synthesis failures are answered 500.
C23_ErrorKindsDistinguishable ==
    \A r \in Slots :
        (req[r].pc = "failed" /\ req[r].err # ValidationError) =>
            /\ (Truthy(req[r].backend) /\ req[r].backend \notin backends)
                   => ApiStatus(req[r].err) = 404
            /\ (Truthy(req[r].backend) /\ req[r].backend \in backends \ available)
                   => ApiStatus(req[r].err) = 503
            /\ (~Truthy(req[r].backend) /\ available = {})
                   => ApiStatus(req[r].err) = 503
            /\ ApiStatus(req[r].err) = 500 => req[r].err = SynthesisError500

-----------------------------------------------------------------------------
(* Specification SpecBackend: one backend object, of any of the four classes, *)
(* driven directly through initialize and the calls that follow it, while the *)
(* service, binary or model it depends on comes and goes                      *)

DanmuEdge == "danmu_tts.backends.edge_tts.EdgeTTSBackend"
SrcEdge   == "src.backends.edge_tts.EdgeTTSBackend"
SrcPiper  == "src.backends.piper_tts.PiperTTSBackend"
SrcXtts   == "src.backends.xtts.XTTSBackend"
Impls     == {DanmuEdge, SrcEdge, SrcPiper, SrcXtts}

\* self._cache_ttl = 3600 (danmu_tts edge_tts.py 21), scaled down
VoiceCacheTtl == 2

Catalog == <<"voices">>

Returned(op, out, external) ==
    [op |-> op, out |-> out, raised |-> FALSE, external |-> external]
Raised(op, external) ==
    [op |-> op, out |-> None, raised |-> TRUE, external |-> external]

\* a _fetch_voices that marked the backend unavailable when the service fails
fetch_voices_marks_down(b, t) ==
    IF b.voices_cache # None /\ t - b.voices_ts < VoiceCacheTtl
    THEN [b EXCEPT !.last = Returned("_fetch_voices", b.voices_cache, FALSE)]
    ELSE IF b.up
         THEN [b EXCEPT !.voices_cache = Catalog, !.voices_ts = t,
                        !.last = Returned("_fetch_voices", Catalog, TRUE)]
         ELSE [b EXCEPT !.available = FALSE, !.last = Raised("_fetch_voices", TRUE)]

\* danmu_tts EdgeTTSBackend._fetch_voices (edge_tts.py 114-144)
fetch_voices(b, t) ==
    IF b.voices_cache # None /\ t - b.voices_ts < VoiceCacheTtl
    THEN [b EXCEPT !.last = Returned("_fetch_voices", b.voices_cache, FALSE)]
    ELSE IF b.up
         THEN [b EXCEPT !.voices_cache = Catalog, !.voices_ts = t,
                        !.last = Returned("_fetch_voices", Catalog, TRUE)]
         ELSE [b EXCEPT !.last = Raised("_fetch_voices", TRUE)]

\* initialize() of each class: danmu_tts edge (edge_tts.py 23-31) catches and records;
\* src edge (22-35) and xtts (33-65) log and re-raise; piper (24-45) raises when the
\* binary is missing or answers with a non-zero code
initialize(b, t) ==
    CASE b.impl = DanmuEdge ->
            LET f == fetch_voices(b, t)
            IN  [f EXCEPT !.init = "returned", !.available = ~f.last.raised,
                          !.last = Returned("initialize", None, TRUE)]
      [] b.impl \in {SrcEdge, SrcPiper} ->
            IF b.up
            THEN [b EXCEPT !.init = "returned", !.last = Returned("initialize", None, TRUE)]
            ELSE [b EXCEPT !.init = "raised", !.last = Raised("initialize", TRUE)]
      [] b.impl = SrcXtts ->
            IF b.up
            THEN [b EXCEPT !.init = "returned", !.model = "loaded",
                           !.last = Returned("initialize", None, TRUE)]
            ELSE [b EXCEPT !.init = "raised", !.last = Raised("initialize", TRUE)]

\* get_voices() of each class: danmu_tts edge (edge_tts.py 146-148) is _fetch_voices;
\* src edge (80-105) fetches once, answers [] when the fetch fails and keeps a
\* fetched catalog for ever; piper (91-141) and xtts (116-154) scan local files once
get_voices(b, t) ==
    CASE b.impl = DanmuEdge ->
            LET f == fetch_voices(b, t)
            IN  [f EXCEPT !.last.op = "get_voices"]
      [] b.impl = SrcEdge ->
            IF b.voices_cache # None
            THEN [b EXCEPT !.last = Returned("get_voices", b.voices_cache, FALSE)]
            ELSE IF b.up
                 THEN [b EXCEPT !.voices_cache = Catalog,
                                !.last = Returned("get_voices", Catalog, TRUE)]
                 ELSE [b EXCEPT !.last = Returned("get_voices", <<>>, TRUE)]
      [] b.impl \in {SrcPiper, SrcXtts} ->
            [b EXCEPT !.voices_cache = Catalog,
                      !.last = Returned("get_voices", Catalog, FALSE)]

\* the status query of each class: danmu_tts edge get_status (edge_tts.py 150-158)
\* reads the recorded flag; src edge is_available (107-114) awaits
\* edge_tts.list_voices(); piper is_available (143-149) runs `piper --help`; xtts
\* is_available (156-161) reads self.model and torch.cuda.is_available(), an
\* AttributeError on a deleted model being caught as False
status(b) ==
    CASE b.impl = DanmuEdge ->
            [b EXCEPT !.last = Returned("status", <<b.available>>, FALSE)]
      [] b.impl \in {SrcEdge, SrcPiper} ->
            [b EXCEPT !.last = Returned("status", <<b.up>>, TRUE)]
      [] b.impl = SrcXtts ->
            [b EXCEPT !.last = Returned("status", <<b.model = "loaded" /\ b.up>>, FALSE)]

\* cleanup() of each class: xtts (259-265) deletes the attribute self.model when it
\* holds a model, so that a later `self.model is not None` raises AttributeError;
\* the other classes inherit a cleanup that does nothing (__init__.py 46-48,
\* base.py 173-175)
cleanup(b) ==
    IF b.impl = SrcXtts
    THEN CASE b.model = "loaded" ->
                 [b EXCEPT !.model = "deleted", !.last = Returned("cleanup", None, FALSE)]
           [] b.model = "None" ->
                 [b EXCEPT !.last = Returned("cleanup", None, FALSE)]
           [] b.model = "deleted" ->
                 [b EXCEPT !.last = Raised("cleanup", FALSE)]
    ELSE [b EXCEPT !.last = Returned("cleanup", None, FALSE)]

\* danmu_tts EdgeTTSBackend.synthesize (edge_tts.py 33-81) and stream_synthesize
\* (83-112): both refuse when the recorded flag is false, otherwise they call the
\* service, whose failure (or an empty answer, for synthesize) raises
synthesize(b, op) ==
    IF ~b.available
    THEN [b EXCEPT !.last = Raised(op, FALSE)]
    ELSE IF b.up
         THEN [b EXCEPT !.last = Returned(op, <<"audio">>, TRUE)]
         ELSE [b EXCEPT !.last = Raised(op, TRUE)]

InitBackend ==
    /\ Booted /\ NoPeer /\ NoGen /\ NoApp /\ NoWs
    /\ be \in {NewObject(i, u) : i \in Impls, u \in BOOLEAN}
    /\ IdleManager /\ IdleCache /\ IdleKey /\ IdleSel

BackendInitialize ==
    /\ be.init = "no"
    /\ be' = initialize(be, now)
    /\ UNCHANGED <<ws, app, boot, peer, gen, managerVars, cacheVars, keyVars, selVars>>

\* the voice service, the piper binary or the model becomes reachable or unreachable
WorldFlips ==
    /\ be' = [be EXCEPT !.up = ~@]
    /\ UNCHANGED <<ws, app, boot, peer, gen, managerVars, cacheVars, keyVars, selVars>>

BackendGetVoices ==
    /\ be' = get_voices(be, now)
    /\ UNCHANGED <<ws, app, boot, peer, gen, managerVars, cacheVars, keyVars, selVars>>

BackendStatus ==
    /\ be' = status(be)
    /\ UNCHANGED <<ws, app, boot, peer, gen, managerVars, cacheVars, keyVars, selVars>>

BackendCleanup ==
    /\ be' = cleanup(be)
    /\ UNCHANGED <<ws, app, boot, peer, gen, managerVars, cacheVars, keyVars, selVars>>

\* the manager's callers synthesize on the danmu_tts backend (api/tts.py 29, 62)
BackendSynthesize ==
    /\ be.impl = DanmuEdge
    /\ \E op \in {"synthesize", "stream_synthesize"} : be' = synthesize(be, op)
    /\ UNCHANGED <<ws, app, boot, peer, gen, managerVars, cacheVars, keyVars, selVars>>

NextBackend ==
    \/ BackendInitialize
    \/ BackendSynthesize
    \/ BackendGetVoices
    \/ BackendStatus
    \/ BackendCleanup
    \/ WorldFlips
    \/ Tick

SpecBackend == InitBackend /\ [][NextBackend]_vars

\* C24: for every backend implementation, initialize() always returns normally and
\* leaves the backend in a definite available or unavailable state: when an internal
\* step fails (connectivity probe, model load, binary discovery) the backend ends
\* unavailable and no exception reaches the caller.
C24_InitializeNeverRaises ==
    [][BackendInitialize =>
          /\ ~be'.last.raised
          /\ be'.init = "returned"
          /\ ~be.up => ~be'.available
      ]_vars

-----------------------------------------------------------------------------
(* Empty audio, checked under Spec *)

\* C25: a backend's synthesize never returns a zero-length audio result on success,
\* so neither the payload generate_speech returns nor any payload written to the
\* cache is ever empty.
C25_NoEmptyPayload ==
    /\ \A r \in Slots :
          (req[r].kind = "gen" /\ req[r].pc = "done") => StrLen(req[r].audio) > 0
    /\ \A e \in Entries(memory_cache) : StrLen(e.data) > 0

\* C26: for a backend whose voice catalog was fetched successfully at least once, a
\* get_voices call inside the freshness window returns the cached catalog without
\* contacting the voice service, and a get_voices call after the window has elapsed
\* while the voice service is unreachable returns an empty set instead of raising.
C26_StaleCatalogNeverRaises ==
    [][(BackendGetVoices /\ be.impl \in {DanmuEdge, SrcEdge} /\ be.voices_cache # None) =>
          /\ (be.impl = DanmuEdge /\ now - be.voices_ts < VoiceCacheTtl) =>
                 /\ be'.last.out = be.voices_cache
                 /\ ~be'.last.external /\ ~be'.last.raised
          /\ (be.impl = DanmuEdge /\ now - be.voices_ts >= VoiceCacheTtl /\ ~be.up) =>
                 /\ ~be'.last.raised
                 /\ be'.last.out = <<>>
          /\ be.impl = SrcEdge => ~be'.last.raised
      ]_vars

\* C27: a backend status query (get_status, and the availability check used by
\* selection and by the manager's status listing) performs no external call and
\* leaves all backend, cache and statistics state unchanged; the availability it
\* reports is the one recorded by the last health evidence, not a fresh probe.
C27_StatusQueryIsReadOnly ==
    [][BackendStatus =>
          /\ ~be'.last.external
          /\ [be' EXCEPT !.last = be.last] = be
          /\ UNCHANGED <<managerVars, cacheVars>>
          /\ be'.last.out = <<be.available>>
      ]_vars

\* C28: shutdown is idempotent for every backend and for the manager: calling cleanup
\* a second time after a first cleanup completes without error and leaves the same
\* state as the first call.
C28_CleanupIsIdempotent ==
    [][(BackendCleanup /\ be.last.op = "cleanup" /\ ~be.last.raised) =>
          /\ ~be'.last.raised
          /\ be' = be
      ]_vars

-----------------------------------------------------------------------------
(* Specification SpecStream: two generators of the default stream_speech     *)
(* (src/src/backends/__init__.py 36-44) iterated concurrently, each over the *)
(* buffer its generate_speech returned                                       *)

\* chunk_size = 4096 (line 42), scaled down, and the longest buffer streamed
ChunkSize == 3
MaxBuf    == 7

Min(a, b) == IF a <= b THEN a ELSE b

\* the audio of stream g: n bytes that no other stream holds
Buffer(g, n) == [k \in 1..n |-> 100 * g + k]

\* audio_data[i : i + chunk_size + 1]
slice_one_more(audio_data, i) ==
    SubSeq(audio_data, i + 1, Min(i + ChunkSize + 1, Len(audio_data)))

\* audio_data[i : i + chunk_size] (line 44)
slice(audio_data, i) ==
    SubSeq(audio_data, i + 1, Min(i + ChunkSize, Len(audio_data)))

Streams == 1..2

InitStream ==
    /\ Booted /\ NoPeer /\ NoObject /\ NoApp /\ NoWs
    /\ gen \in [Streams -> {[audio_data |-> Buffer(g, n), i |-> 0, out |-> <<>>,
                             pc |-> "running"] : g \in Streams, n \in 0..MaxBuf}]
    /\ \A g \in Streams : \E n \in 0..MaxBuf : gen[g].audio_data = Buffer(g, n)
    /\ IdleManager /\ IdleCache /\ IdleKey /\ IdleSel

\* one iteration of `for i in range(0, len(audio_data), chunk_size): yield ...`
StreamYield(g) ==
    /\ gen[g].pc = "running"
    /\ gen[g].i < Len(gen[g].audio_data)
    /\ gen' = [gen EXCEPT ![g] =
                 [@ EXCEPT !.out = Append(@, slice(gen[g].audio_data, gen[g].i)),
                           !.i = @ + ChunkSize]]
    /\ UNCHANGED <<ws, app, boot, peer, be, managerVars, cacheVars, keyVars, selVars>>

\* the range is exhausted and the generator ends
StreamStop(g) ==
    /\ gen[g].pc = "running"
    /\ gen[g].i >= Len(gen[g].audio_data)
    /\ gen' = [gen EXCEPT ![g] = [@ EXCEPT !.pc = "done"]]
    /\ UNCHANGED <<ws, app, boot, peer, be, managerVars, cacheVars, keyVars, selVars>>

NextStream ==
    \/ \E g \in Streams : StreamYield(g)
    \/ \E g \in Streams : StreamStop(g)

SpecStream == InitStream /\ [][NextStream]_vars

RECURSIVE Concat(_)
Concat(chunks) ==
    IF chunks = <<>> THEN <<>> ELSE Head(chunks) \o Concat(Tail(chunks))

\* C29: for any completed audio buffer, the default stream_speech yields a finite
\* sequence of chunks whose in-order concatenation equals the buffer exactly, every
\* chunk non-empty and at most chunk_size bytes, every chunk but the last exactly
\* chunk_size bytes; an empty buffer yields no chunk, and the chunks of two
\* concurrent streams are never mixed into one stream.
C29_ChunksRebuildTheBuffer ==
    \A g \in Streams :
        LET out == gen[g].out
            buf == gen[g].audio_data
        IN  /\ Concat(out) = SubSeq(buf, 1, Min(gen[g].i, Len(buf)))
            /\ gen[g].pc = "done" => Concat(out) = buf
            /\ \A k \in 1..Len(out) :
                  /\ Len(out[k]) >= 1 /\ Len(out[k]) <= ChunkSize
                  /\ k < Len(out) => Len(out[k]) = ChunkSize
            /\ buf = <<>> => out = <<>>
            /\ \A k \in 1..Len(out) : \A j \in 1..Len(out[k]) :
                  out[k][j] \in {buf[n] : n \in 1..Len(buf)}

\* one stream has ended after a short last chunk while the other, over a buffer of
\* a whole number of chunks, is between its two chunks
C29_Witness ==
    /\ gen[1].pc = "done" /\ Len(gen[1].audio_data) = 2 * ChunkSize + 1
    /\ Len(gen[1].out) = 3 /\ Len(gen[1].out[3]) = 1
    /\ gen[2].pc = "running" /\ Len(gen[2].audio_data) = 2 * ChunkSize
    /\ Len(gen[2].out) = 1

-----------------------------------------------------------------------------
(* The tracked size of the memory tier, checked under SpecCache *)

\* C30: in every reachable state of the memory tier, cache_stats.size_mb equals the
\* sum of the size fields of the entries in the store: after a get that lazily
\* removes an expired entry, after a set that overwrites a key, after two concurrent
\* misses both set one key, and after eviction, sweep and clear.
C30_TrackedSizeIsSumOfEntries ==
    cache_type = "memory" => cache_stats.size_mb = SumSizes(memory_cache)

-----------------------------------------------------------------------------
(* The request counters of TTSManager, checked under Spec *)

\* sum(backend_usage.values())
RECURSIVE SumUsage(_)
SumUsage(usage) ==
    IF DOMAIN usage = {} THEN 0
    ELSE LET n == CHOOSE m \in DOMAIN usage : TRUE
         IN  usage[n] + SumUsage([m \in DOMAIN usage \ {n} |-> usage[m]])

\* C31: in every reachable state cache_hits plus the sum of the backend_usage counters
\* is at most total_requests; when no generate request is in flight total_requests
\* equals cache_hits plus that sum plus the number of failed generate requests; and
\* a cache hit never increments a backend_usage counter.
C31_CountersAddUp ==
    /\ [](stats.cache_hits + SumUsage(stats.backend_usage) <= stats.total_requests)
    /\ []((\A r \in Slots : req[r].kind = "gen" => req[r].pc \in {"done", "failed"}) =>
             stats.total_requests =
                 stats.cache_hits + SumUsage(stats.backend_usage)
                   + Cardinality({r \in Slots : req[r].kind = "gen" /\ req[r].pc = "failed"}))
    /\ [][stats'.cache_hits > stats.cache_hits =>
             stats'.backend_usage = stats.backend_usage]_vars

\* at rest after a generate call that a backend served, counted once in
\* backend_usage, and one that failed
C31_Witness ==
    /\ req[1].kind = "gen" /\ req[1].pc = "done" /\ ~req[1].cached
    /\ req[2].kind = "gen" /\ req[2].pc = "failed"
    /\ \A r \in Slots : r > 2 => req[r].pc = "idle"
    /\ stats.total_requests = 2 /\ SumUsage(stats.backend_usage) = 1

-----------------------------------------------------------------------------
(* Selection with no backend named, checked under SpecSelect *)

\* C32: whenever at least one registered backend is available, a request that names
\* no backend selects some backend and does not fail with no-backend-available, for
\* every quality tier and every configuration of primary and fallback backends.
C32_UnnamedFindsAnAvailableBackend ==
    (selOut.called /\ selIn.preferred = None /\ available # {}) =>
        selOut.chosen # None

\* ---------------------------------------------------------------------------
\* The danmu_tts application: two manager instances.  danmu_tts/main.py builds
\* its own TTSManager (main.py 61) and its lifespan initializes that one
\* (main.py 64-70); api/tts.py and api/backends.py import the instance of
\* danmu_tts/manager.py (manager.py 57), which no code initializes; only
\* api/voices.py imports the instance of main.py.  `app` holds the registry of
\* the instance of main.py, `backends`/`available` that of manager.py.
\* `boot.enabled` is config.edge_tts.enabled and `boot.raises` the backends
\* whose initialize() fails.
\* ---------------------------------------------------------------------------

InitApp ==
    /\ boot \in [pc : {"app"}, enabled : SUBSET {Edge}, raises : SUBSET {Edge}, gpu : {FALSE}]
    /\ app = [pc |-> "created", backends |-> {}, available |-> {}]
    /\ NoPeer /\ NoObject /\ NoGen /\ NoWs
    /\ backends = {} /\ available = {}
    /\ settings = DefaultSettings
    /\ stats = [total_requests |-> 0, cache_hits |-> 0, backend_usage |-> <<>>]
    /\ req = [r \in Slots |-> IdleReq]
    /\ IdleCache /\ IdleKey /\ IdleSel

\* lifespan up to its yield (main.py 64-72) awaits initialize() of main.py's instance
\* (main.py 25-31): edge is registered when enabled; EdgeTTSBackend.initialize
\* swallows a failure and leaves `available` false (edge_tts.py 23-31)
lifespan ==
    /\ app.pc = "created"
    /\ app' = [pc |-> "serving",
               backends |-> boot.enabled,
               available |-> boot.enabled \ boot.raises]
    /\ UNCHANGED <<ws, boot, peer, be, gen, managerVars, cacheVars, keyVars, selVars>>

\* GET /voices (api/voices.py 12-55) consults the instance of main.py; its own
\* HTTPExceptions pass through unchanged, anything get_voices raises becomes a 500
get_voices_endpoint(r, backend) ==
    /\ app.pc = "serving"
    /\ req[r].pc = "idle"
    /\ \A q \in Slots : q < r => req[q].pc # "idle"
    /\ LET call == [IdleReq EXCEPT !.kind = "voices", !.backend = backend]
           asks == IF Truthy(backend) THEN {backend} ELSE app.available
       IN  \E raised \in BOOLEAN :
             /\ raised => (asks \cap app.available) # {}
             /\ req' = [req EXCEPT ![r] =
                  IF Truthy(backend) /\ backend \notin app.backends
                  THEN [call EXCEPT !.pc = "failed", !.err = "404: Backend not found"]
                  ELSE IF Truthy(backend) /\ backend \notin app.available
                  THEN [call EXCEPT !.pc = "failed", !.err = "503: Backend is not available"]
                  ELSE IF raised
                  THEN [call EXCEPT !.pc = "failed", !.err = "500: Failed to get voices"]
                  ELSE [call EXCEPT !.pc = "done", !.sel = asks]]
    /\ UNCHANGED <<ws, app, boot, peer, be, gen, backends, available, settings, stats, cacheVars, keyVars, selVars>>

\* the application serves requests once lifespan has yielded; POST /tts and
\* GET /tts/stream consult the instance of manager.py, whose registry is the
\* empty one its constructor made (manager.py 18-19)
NextApp ==
    \/ lifespan
    \/ \E r \in Slots, c \in ApiCalls : app.pc = "serving" /\ ApiRejects(r, c[1], c[2])
    \/ \E r \in Slots, c \in ApiCalls : app.pc = "serving" /\ ApiStart(r, c[1], c[2])
    \/ \E r \in Slots, c \in ApiCalls : app.pc = "serving" /\ ApiStreamStart(r, c[1], c[2])
    \/ \E r \in Slots, b \in {None, Edge, Piper} : get_voices_endpoint(r, b)

SpecApp == InitApp /\ [][NextApp]_vars

\* C33: the manager that lifespan initializes is the one the handlers consult:
\* once the application serves, the registry the /tts handlers read equals the
\* registry lifespan filled, and when edge was enabled and its initialize
\* succeeded a /tts request that names no backend is given edge.
C33_HandlersConsultTheStartedManager ==
    app.pc = "serving" =>
        /\ backends = app.backends /\ available = app.available
        /\ \A r \in Slots :
             ( /\ req[r].kind = "gen" /\ req[r].pc # "idle"
               /\ req[r].err # ValidationError
               /\ ~Truthy(req[r].backend)
               /\ Edge \in boot.enabled \ boot.raises )
             => req[r].sel = Edge

\* C34: in the danmu_tts backend the available flag is written only by
\* initialize(): synthesize, stream_synthesize, get_voices, get_status and cleanup
\* leave it as it was, also when they raise, so a backend that ended initialize
\* unavailable refuses every later synthesis (and stays rejected by get_backend and
\* skipped by get_default_backend, which read the same flag, manager.py 39, 46).
C34_OnlyInitializeWritesAvailable ==
    /\ [][(be.impl = DanmuEdge /\ be'.last.op # "initialize")
              => be'.available = be.available]_vars
    /\ [][(be.impl = DanmuEdge /\ be.init = "returned" /\ ~be.available)
              => /\ ~be'.available
                 /\ BackendSynthesize => be'.last.raised /\ ~be'.last.external]_vars

\* initialize ended unavailable, the service has come back, a catalog has been
\* fetched since, and a synthesis is still refused
C34_Witness ==
    /\ be.impl = DanmuEdge /\ be.init = "returned" /\ ~be.available
    /\ be.up /\ be.voices_cache = Catalog
    /\ be.last.op = "stream_synthesize" /\ be.last.raised

\* C35: round trip on the memory tier: whenever set(key, payload) returns success
\* (the TTL being positive), a get(key) issued in the state the set leaves behind
\* returns exactly that payload, whatever the payload's size (one larger than the
\* size budget included) and whatever the store held before (a store that made
\* the set evict included).
C35_SetThenGetRoundTrip ==
    [][\A k \in CacheKeys, d \in CacheData :
          (cache_type = "memory" /\ CacheSetOp(k, d) /\ ret'.value = TRUE)
              => /\ TTL > 0
                 /\ get_memory(memory_cache', cache_stats', k, now').out = d]_vars

\* a get has just returned a payload larger than the size budget, which the set
\* that stored it could only admit after evicting
C35_Witness ==
    /\ cache_type = "memory"
    /\ ret.op = "get" /\ ret.value \in CacheData
    /\ SizeMb(ret.value) > MaxSizeMb
    /\ cache_stats.size_mb > MaxSizeMb

-----------------------------------------------------------------------------
(* Specification SpecWs: WebSocketManager (src/websocket_manager.py) with     *)
(* connect and disconnect running at the suspension points of send_to_all.    *)
(* send_to_all iterates the live list: its list iterator keeps an index and   *)
(* stops as soon as the index reaches the list's current length.              *)

MaxConns == 3
Conns    == 1..MaxConns

Elems(list) == {list[j] : j \in 1..Len(list)}

InitWs ==
    /\ Booted /\ NoPeer /\ NoObject /\ NoGen /\ NoApp
    /\ ws = [active_connections |-> <<>>, pc |-> "idle", i |-> 0, disconnected |-> <<>>,
             attempts |-> [c \in Conns |-> 0], before |-> <<>>, left |-> {}]
    /\ IdleManager /\ IdleCache /\ IdleKey /\ IdleSel

\* connect (16-22): a socket that is not yet in the list is accepted and appended
connect(websocket) ==
    /\ websocket \notin Elems(ws.active_connections)
    /\ ws' = [ws EXCEPT !.active_connections = Append(@, websocket)]
    /\ UNCHANGED <<app, boot, peer, be, gen, managerVars, cacheVars, keyVars, selVars>>

\* disconnect (24-30), called by websocket_endpoint when its socket closes
\* (app.py 160-164)
disconnect(websocket) ==
    /\ websocket \in Elems(ws.active_connections)
    /\ ws' = [ws EXCEPT
                 !.active_connections = SelectSeq(@, LAMBDA x : x # websocket),
                 !.left = IF ws.pc = "loop" THEN @ \cup {websocket} ELSE @]
    /\ UNCHANGED <<app, boot, peer, be, gen, managerVars, cacheVars, keyVars, selVars>>

\* send_to_all is called (32-35): `disconnected = []` and the iterator is made
send_to_all_begin ==
    /\ ws.pc \in {"idle", "done"}
    /\ ws' = [ws EXCEPT !.pc = "loop", !.i = 0, !.disconnected = <<>>,
                        !.attempts = [c \in Conns |-> 0],
                        !.before = ws.active_connections, !.left = {}]
    /\ UNCHANGED <<app, boot, peer, be, gen, managerVars, cacheVars, keyVars, selVars>>

\* one round of the loop (35-40): the iterator hands out the element at its index,
\* send_json is awaited, and a failure puts the connection on `disconnected`
send_to_all_send(failed) ==
    /\ ws.pc = "loop"
    /\ ws.i < Len(ws.active_connections)
    /\ LET connection == ws.active_connections[ws.i + 1]
       IN  ws' = [ws EXCEPT !.i = @ + 1,
                            !.attempts[connection] = @ + 1,
                            !.disconnected = IF failed THEN Append(@, connection) ELSE @]
    /\ UNCHANGED <<app, boot, peer, be, gen, managerVars, cacheVars, keyVars, selVars>>

\* the iterator is exhausted and the second loop (42-44) disconnects, without
\* suspending, every connection on `disconnected` that is still in the list
send_to_all_end ==
    /\ ws.pc = "loop"
    /\ ws.i >= Len(ws.active_connections)
    /\ ws' = [ws EXCEPT
                 !.pc = "done",
                 !.active_connections = SelectSeq(@, LAMBDA x : x \notin Elems(ws.disconnected))]
    /\ UNCHANGED <<app, boot, peer, be, gen, managerVars, cacheVars, keyVars, selVars>>

NextWs ==
    \/ \E c \in Conns : connect(c)
    \/ \E c \in Conns : disconnect(c)
    \/ send_to_all_begin
    \/ \E failed \in BOOLEAN : send_to_all_send(failed)
    \/ send_to_all_end

SpecWs == InitWs /\ [][NextWs]_vars

\* C36: when send_to_all returns, every connection that was in
\* active_connections for the whole call has been sent to exactly once, and such a
\* connection is still in active_connections exactly when its send did not fail,
\* also when connect or disconnect ran at the suspension points of the call.
C36_SendToAllReachesEveryone ==
    [][send_to_all_end =>
          \A c \in Elems(ws.before) \ ws.left :
              /\ ws'.attempts[c] = 1
              /\ c \in Elems(ws'.active_connections) <=> c \notin Elems(ws.disconnected)]_vars

\* C37: the background sweep and get agree on expiry: at any clock value the
\* entries a round of the sweep would remove are exactly the entries for which
\* get would report a miss because of their age, an entry whose age equals the
\* TTL included.
C37_SweepAndGetAgreeOnExpiry ==
    cache_type = "memory" =>
        \A j \in 1..Len(memory_cache) :
            (memory_cache[j] \in Elems(Expired(memory_cache, now)))
                <=> (get_memory(memory_cache, cache_stats,
                                memory_cache[j].key, now).out = None)

====
